---- MODULE Spec2Model ----
(***************************************************************************)
(* A model of the speech detector of speech/detector.go: configuration     *)
(* validation (DetectorConfig.IsValid), construction (NewDetector), the    *)
(* windowed hysteresis state machine and the short-segment filter of       *)
(* Detector.Detect, Reset and the three setters.                           *)
(*                                                                         *)
(* Representation.                                                         *)
(*  - Probabilities and thresholds (float32 in the code) are integers in   *)
(*    hundredths: 50 stands for 0.5, 15 for the literal 0.15.              *)
(*  - A timestamp float64(n) / float64(SampleRate) is represented by its   *)
(*    numerator n, a number of samples.  Two timestamps of one detector    *)
(*    are equal, ordered or zero exactly when their numerators are.        *)
(*  - A buffer pcm is its length and the audio class of each of its        *)
(*    complete windows pcm[k*windowSize : (k+1)*windowSize].               *)
(***************************************************************************)
EXTENDS Integers, Sequences, FiniteSets, TLC

VARIABLES
    sd,        \* the *Detector (Nil before NewDetector succeeds / after Destroy)
    pc,        \* "none": no detector, "idle": between calls, "loop": inside Detect's
               \* for loop, "done": Detect has returned and the caller holds ret,
               \* "checked": IsValid or NewDetector has returned an error or nil
               \* without a detector
    arg,       \* the DetectorConfig last handed to NewDetector
    pcm,       \* the buffer of the running (or last) Detect call
    i,         \* Detect's loop variable: offset of the next window in pcm
    segments,  \* Detect's local slice of segments
    ret,       \* what the last call returned: [segments, err]
    probe      \* observations kept for the properties only (never read by the code)

vars == <<sd, pc, arg, pcm, i, segments, ret, probe>>

Nil == "nil"

\* ---------------------------------------------------------------- bounds

\* Largest number of complete windows in one buffer.
MaxWindows == 3

\* Largest number of windows a detector consumes between two Resets.
MaxTotalWindows == 4

\* Length of the trailing partial window of the buffers that have one.
Remainder == 100

\* ---------------------------------------------------------------- constants

Pct15 == 15

DefaultMinSpeechDurationMs == 250

MsPerSecond == 1000

WindowSize8k == 256

WindowSize16k == 512

Rate8k == 8000

Rate16k == 16000

\* ---------------------------------------------------------------- errors

ErrModelPath == "invalid ModelPath: should not be empty"
ErrSampleRate == "invalid SampleRate: valid values are 8000 and 16000"
ErrThreshold == "invalid Threshold: should be in range (0, 1)"
ErrNegRange == "invalid NegativeThreshold: should be in range [0, 1)"
ErrNegLess == "invalid NegativeThreshold: should be less than Threshold"
ErrMinSilence == "invalid MinSilenceDurationMs: should be a positive number"
ErrMinSpeech == "invalid MinSpeechDurationMs: should be a positive number"
ErrSpeechPad == "invalid SpeechPadMs: should be a positive number"
ErrNotEnough == "not enough samples"
ErrInfer == "infer failed"
ErrUnexpectedEnd == "unexpected speech end"

\* ---------------------------------------------------------------- helpers

\* Go's integer division truncates toward zero.
GoDiv(a, b) == IF a >= 0 THEN a \div b ELSE -((-a) \div b)

Last(s) == s[Len(s)]

\* ---------------------------------------------------------------- DetectorConfig

\* One value of the DetectorConfig struct (LogLevel plays no part in detection).
Config(mp, sr, th, nth, msil, msp, pad) ==
    [ModelPath |-> mp, SampleRate |-> sr, Threshold |-> th,
     NegativeThreshold |-> nth, MinSilenceDurationMs |-> msil,
     MinSpeechDurationMs |-> msp, SpeechPadMs |-> pad]

\* A mutation of IsValid: the NegativeThreshold range check excludes 0, as the
\* stale message "(0, 1)" would have it.
IsValidOpenRange(c) ==
    IF c.ModelPath = "" THEN ErrModelPath
    ELSE IF c.SampleRate # Rate8k /\ c.SampleRate # Rate16k THEN ErrSampleRate
    ELSE IF c.Threshold <= 0 \/ c.Threshold >= 100 THEN ErrThreshold
    ELSE IF c.NegativeThreshold <= 0 \/ c.NegativeThreshold >= 100 THEN ErrNegRange
    ELSE IF c.NegativeThreshold > 0 /\ c.NegativeThreshold >= c.Threshold THEN ErrNegLess
    ELSE IF c.MinSilenceDurationMs < 0 THEN ErrMinSilence
    ELSE IF c.MinSpeechDurationMs < 0 THEN ErrMinSpeech
    ELSE IF c.SpeechPadMs < 0 THEN ErrSpeechPad
    ELSE Nil

\* A mutation of IsValid: the two duration checks are swapped.
IsValidSwapped(c) ==
    IF c.ModelPath = "" THEN ErrModelPath
    ELSE IF c.SampleRate # Rate8k /\ c.SampleRate # Rate16k THEN ErrSampleRate
    ELSE IF c.Threshold <= 0 \/ c.Threshold >= 100 THEN ErrThreshold
    ELSE IF c.NegativeThreshold < 0 \/ c.NegativeThreshold >= 100 THEN ErrNegRange
    ELSE IF c.NegativeThreshold > 0 /\ c.NegativeThreshold >= c.Threshold THEN ErrNegLess
    ELSE IF c.MinSpeechDurationMs < 0 THEN ErrMinSpeech
    ELSE IF c.MinSilenceDurationMs < 0 THEN ErrMinSilence
    ELSE IF c.SpeechPadMs < 0 THEN ErrSpeechPad
    ELSE Nil

\* DetectorConfig.IsValid: the error message, or Nil.
IsValid(c) ==
    IF c.ModelPath = "" THEN ErrModelPath
    ELSE IF c.SampleRate # Rate8k /\ c.SampleRate # Rate16k THEN ErrSampleRate
    ELSE IF c.Threshold <= 0 \/ c.Threshold >= 100 THEN ErrThreshold
    ELSE IF c.NegativeThreshold < 0 \/ c.NegativeThreshold >= 100 THEN ErrNegRange
    ELSE IF c.NegativeThreshold > 0 /\ c.NegativeThreshold >= c.Threshold THEN ErrNegLess
    ELSE IF c.MinSilenceDurationMs < 0 THEN ErrMinSilence
    ELSE IF c.MinSpeechDurationMs < 0 THEN ErrMinSpeech
    ELSE IF c.SpeechPadMs < 0 THEN ErrSpeechPad
    ELSE Nil

\* NewDetector's substitution of defaults for the zero values.
DefaultedConfig(c) ==
    LET c1 == IF c.NegativeThreshold = 0
              THEN [c EXCEPT !.NegativeThreshold = c.Threshold - Pct15]
              ELSE c
    IN  IF c1.MinSpeechDurationMs = 0
        THEN [c1 EXCEPT !.MinSpeechDurationMs = DefaultMinSpeechDurationMs]
        ELSE c1

\* The Detector struct NewDetector builds: the configuration, and Go's zero
\* values for the recurrent buffers and the running state.
MakeDetector(c) ==
    [cfg |-> c, state |-> 0, ctx |-> 0,
     currSample |-> 0, triggered |-> FALSE, tempEnd |-> 0]

\* ---------------------------------------------------------------- inference adapter

\* Audio classes of a window: silence, an in-between level, speech, and a
\* malformed window on which the adapter fails.
Audio == {"sil", "mid", "sp", "bad"}

\* Probability (in hundredths) a window of class x gets with recurrent state st
\* (0: all zeros, 1: the window before was speech): speech is scored 0.5 at its
\* onset and 0.9 when it continues.
ProbOf(x, st) ==
    CASE x = "sil" -> 10
      [] x = "mid" -> 35
      [] x = "sp"  -> IF st = 1 THEN 90 ELSE 50
      [] OTHER     -> 0

\* sd.infer: a deterministic function of the window and the recurrent buffers;
\* it returns a probability and updates state and ctx, or fails and leaves them.
infer(d, x) ==
    IF x = "bad"
    THEN [err |-> ErrInfer, prob |-> 0, state |-> d.state, ctx |-> d.ctx]
    ELSE [err |-> Nil, prob |-> ProbOf(x, d.state),
          state |-> IF x = "sp" THEN 1 ELSE 0, ctx |-> 1]

\* ---------------------------------------------------------------- Detect

\* windowSize := 512; if SampleRate == 8000 { windowSize = 256 }
windowSize(c) == IF c.SampleRate = Rate8k THEN WindowSize8k ELSE WindowSize16k

minSilenceSamples(c) == GoDiv(c.MinSilenceDurationMs * c.SampleRate, MsPerSecond)

speechPadSamples(c) == GoDiv(c.SpeechPadMs * c.SampleRate, MsPerSecond)

minSpeechSamples(c) == GoDiv(c.MinSpeechDurationMs * c.SampleRate, MsPerSecond)

\* A mutation of TooShort: only an empty buffer is refused.
TooShortOnlyEmpty(len, W) == len = 0

\* Detect's test of the buffer's length: "not enough samples".
TooShort(len, W) == len < W

\* The loop condition of Detect's for statement.
LoopCond(idx, len, W) == idx < len - W

\* A mutation of StartAt: the start is taken at the end of the opening window.
StartAtWindowEnd(cur, W, pad) == IF cur - pad < 0 THEN 0 ELSE cur - pad

\* speechStartAt of a segment opened in the window after which currSample = cur,
\* clamped at zero.
StartAt(cur, W, pad) == IF cur - W - pad < 0 THEN 0 ELSE cur - W - pad

\* A mutation of Triggers: a probability equal to Threshold does not trigger.
TriggersAbove(prob, d) == prob > d.cfg.Threshold /\ ~d.triggered

\* A mutation of Triggers: every speech window opens a segment.
TriggersOnEverySpeech(prob, d) == prob >= d.cfg.Threshold

\* The condition under which a window opens a segment.
Triggers(prob, d) == prob >= d.cfg.Threshold /\ ~d.triggered

\* The body of Detect's loop after a successful inference with probability prob:
\* the advance of currSample, the re-arm, the trigger and the silence branch.
\* err is ErrUnexpectedEnd when the body returns it, Nil otherwise; opened, marked
\* and closed tell which branches ran (a segment appended, tempEnd set from 0,
\* the silence branch run to its end).
WindowBody(d, segs, prob) ==
    LET c    == d.cfg
        W    == windowSize(c)
        pad  == speechPadSamples(c)
        cur  == d.currSample + W
        sp   == prob >= c.Threshold
        te1  == IF sp /\ d.tempEnd # 0 THEN 0 ELSE d.tempEnd
        open == Triggers(prob, d)
        tr1  == IF open THEN TRUE ELSE d.triggered
        sg1  == IF open
                THEN Append(segs, [SpeechStartAt |-> StartAt(cur, W, pad),
                                   SpeechEndAt |-> 0])
                ELSE segs
        sil  == prob < c.NegativeThreshold /\ tr1
        te2  == IF sil /\ te1 = 0 THEN cur ELSE te1
        wait == sil /\ cur - te2 < minSilenceSamples(c)
        shut == sil /\ ~wait
        d1   == [d EXCEPT !.currSample = cur,
                          !.triggered = IF shut THEN FALSE ELSE tr1,
                          !.tempEnd = IF shut THEN 0 ELSE te2]
        obs  == [opened |-> open, marked |-> sil /\ te1 = 0, closed |-> shut]
    IN  IF shut /\ Len(sg1) < 1
        THEN [sd |-> d1, segments |-> sg1, err |-> ErrUnexpectedEnd, obs |-> obs]
        ELSE [sd |-> d1,
              segments |-> IF shut
                           THEN [sg1 EXCEPT ![Len(sg1)].SpeechEndAt = te2 + pad]
                           ELSE sg1,
              err |-> Nil, obs |-> obs]

\* A mutation of WindowStep: the window the adapter fails on is counted in
\* currSample all the same.
WindowStepCountingFailure(d, segs, x) ==
    LET r == infer(d, x)
    IN  IF r.err # Nil
        THEN [sd |-> [d EXCEPT !.currSample = @ + windowSize(d.cfg)],
              segments |-> segs, err |-> ErrInfer,
              obs |-> [opened |-> FALSE, marked |-> FALSE, closed |-> FALSE]]
        ELSE WindowBody([d EXCEPT !.state = r.state, !.ctx = r.ctx], segs, r.prob)

\* One iteration of Detect's loop on a window of class x.
WindowStep(d, segs, x) ==
    LET r == infer(d, x)
    IN  IF r.err # Nil
        THEN [sd |-> d, segments |-> segs, err |-> ErrInfer,
              obs |-> [opened |-> FALSE, marked |-> FALSE, closed |-> FALSE]]
        ELSE WindowBody([d EXCEPT !.state = r.state, !.ctx = r.ctx], segs, r.prob)

\* A mutation of Failure: the segments built so far are returned with the error.
FailureWithSegments(segs, err) == [segments |-> segs, err |-> err]

\* What Detect returns when its loop fails with err, segs being the segments
\* built so far: return nil, err.
Failure(segs, err) == [segments |-> <<>>, err |-> err]

\* A natural number of any size is the sequence of its digits in base Base,
\* the least significant first and the last not 0.  A float64 that is not
\* negative is [m, e]: the number m * 2^e, m of at most Precision binary digits.

\* The number of binary digits of a float64 mantissa.
Precision == 53

Base == 2^12

\* The digits of the natural number n.
RECURSIVE FromNat(_)
FromNat(n) == IF n = 0 THEN <<>> ELSE <<n % Base>> \o FromNat(n \div Base)

\* The natural number with the digits N (it is below 2^31).
RECURSIVE ToNat(_)
ToNat(N) == IF N = <<>> THEN 0 ELSE N[1] + Base * ToNat(Tail(N))

\* N without digits 0 at its end.
RECURSIVE Norm(_)
Norm(N) ==
    IF N = <<>> \/ N[Len(N)] # 0 THEN N ELSE Norm(SubSeq(N, 1, Len(N) - 1))

\* The number of binary digits of N.
BitLen(N) ==
    IF N = <<>> THEN 0
    ELSE 12 * (Len(N) - 1)
         + CHOOSE k \in 1..12 : 2^(k - 1) <= N[Len(N)] /\ N[Len(N)] < 2^k

\* N * k + c, for k and c below 2^17.
RECURSIVE MulSmall(_, _, _)
MulSmall(N, k, c) ==
    IF N = <<>> THEN FromNat(c)
    ELSE <<(N[1] * k + c) % Base>>
         \o MulSmall(Tail(N), k, (N[1] * k + c) \div Base)

\* Quotient q and remainder r of N by d, for d up to 2^17; q may end in 0.
RECURSIVE DivSmall(_, _)
DivSmall(N, d) ==
    IF N = <<>> THEN [q |-> <<>>, r |-> 0]
    ELSE LET hi == DivSmall(Tail(N), d)
         IN  [q |-> <<(hi.r * Base + N[1]) \div d>> \o hi.q,
              r |-> (hi.r * Base + N[1]) % d]

\* A - B - c for A >= B + c; the result may end in 0.
RECURSIVE SubNat(_, _, _)
SubNat(A, B, c) ==
    IF A = <<>> THEN <<>>
    ELSE LET x == A[1] - (IF B = <<>> THEN 0 ELSE B[1]) - c
         IN  <<IF x < 0 THEN x + Base ELSE x>>
             \o SubNat(Tail(A), IF B = <<>> THEN B ELSE Tail(B),
                       IF x < 0 THEN 1 ELSE 0)

\* N + 1.
RECURSIVE AddOne(_)
AddOne(N) ==
    IF N = <<>> THEN <<1>>
    ELSE IF N[1] + 1 < Base THEN <<N[1] + 1>> \o Tail(N)
    ELSE <<0>> \o AddOne(Tail(N))

\* N * 2^s.
ShiftLeft(N, s) == [k \in 1..(s \div 12) |-> 0] \o MulSmall(N, 2^(s % 12), 0)

\* The float64 nearest to N * 2^e, or to a little more than that when sticky;
\* a tie goes to the even mantissa.  N has at most Precision + 17 binary digits.
RoundFloat(N, e, sticky) ==
    IF BitLen(N) <= Precision THEN [m |-> N, e |-> e]
    ELSE LET s    == BitLen(N) - Precision
             dv   == DivSmall(N, 2^s)
             half == 2^(s - 1)
             up   == \/ dv.r > half
                     \/ dv.r = half /\ (sticky \/ dv.q[1] % 2 = 1)
         IN  [m |-> IF up THEN AddOne(Norm(dv.q)) ELSE Norm(dv.q), e |-> e + s]

\* float64(n) / float64(d), for a natural n below 2^17 and d from 2^12 to 2^14:
\* the quotient is taken with 55 to 57 binary digits, then rounded.
FloatDiv(n, d) ==
    IF n = 0 THEN [m |-> <<>>, e |-> 0]
    ELSE LET p  == Precision + 16 - BitLen(FromNat(n))
             dv == DivSmall(ShiftLeft(FromNat(n), p), d)
         IN  RoundFloat(Norm(dv.q), 0 - p, dv.r # 0)

\* x - y in float64, for x >= y.
FloatSub(x, y) ==
    IF y.m = <<>> THEN x
    ELSE LET e0 == IF x.e < y.e THEN x.e ELSE y.e
         IN  RoundFloat(Norm(SubNat(ShiftLeft(x.m, x.e - e0),
                                    ShiftLeft(y.m, y.e - e0), 0)),
                        e0, FALSE)

\* x * float64(k) in float64, for a natural k below 2^14.
FloatMul(x, k) == RoundFloat(Norm(MulSmall(x.m, k, 0)), x.e, FALSE)

\* The integer part of x, for x below 2^31 and x.e <= 0.
FloatFloor(x) ==
    LET s == 0 - x.e
    IN  IF s \div 12 >= Len(x.m) THEN 0
        ELSE ToNat(Norm(DivSmall(SubSeq(x.m, (s \div 12) + 1, Len(x.m)),
                                 2^(s % 12)).q))

\* (float64(to)/float64(sr) - float64(from)/float64(sr)) * float64(sr)
\*     >= float64(n),
\* the comparison Detect's filter makes, for an integer n.
DurationAtLeast(from, to, sr, n) ==
    FloatFloor(FloatMul(FloatSub(FloatDiv(to, sr), FloatDiv(from, sr)), sr)) >= n

\* A mutation of Keeps: the durations are compared as exact numbers of samples.
KeepsExact(seg, c) ==
    \/ seg.SpeechEndAt = 0
    \/ seg.SpeechEndAt - seg.SpeechStartAt >= minSpeechSamples(c)

\* A mutation of Keeps: the comparison is turned round.
KeepsShorter(seg, c) ==
    \/ seg.SpeechEndAt = 0
    \/ seg.SpeechEndAt - seg.SpeechStartAt <= minSpeechSamples(c)

\* Whether the filter keeps a segment.  The segment holds the numerators, in
\* samples, of its two times in seconds; the times themselves are the float64
\* quotients by the sample rate, and the filter compares their float64
\* difference, multiplied back by the sample rate, with the minimum.
Keeps(seg, c) ==
    \/ seg.SpeechEndAt = 0
    \/ DurationAtLeast(seg.SpeechStartAt, seg.SpeechEndAt, c.SampleRate,
                       minSpeechSamples(c))

\* A mutation of FilterSegments: a MinSpeechDurationMs of 0 is read as the default.
FilterSegmentsDefaulting(segs, c) ==
    LET c1 == IF c.MinSpeechDurationMs = 0
              THEN [c EXCEPT !.MinSpeechDurationMs = DefaultMinSpeechDurationMs]
              ELSE c
    IN  SelectSeq(segs, LAMBDA seg : Keeps(seg, c1))

\* A mutation of FilterSegments: the open segments are put first.
FilterSegmentsOpenFirst(segs, c) ==
    IF c.MinSpeechDurationMs > 0
    THEN SelectSeq(segs, LAMBDA seg : seg.SpeechEndAt = 0)
         \o SelectSeq(segs, LAMBDA seg : seg.SpeechEndAt # 0 /\ Keeps(seg, c))
    ELSE segs

\* The filter of the segments that are too short.
FilterSegments(segs, c) ==
    IF c.MinSpeechDurationMs > 0
    THEN SelectSeq(segs, LAMBDA seg : Keeps(seg, c))
    ELSE segs

\* Detect's loop from offset idx to its end, then the filter: the detector it
\* leaves and the value it returns.
RECURSIVE RunLoop(_, _, _, _)
RunLoop(d, segs, buf, idx) ==
    LET W == windowSize(d.cfg)
    IN  IF LoopCond(idx, buf.len, W)
        THEN LET r == WindowStep(d, segs, buf.win[(idx \div W) + 1])
             IN  IF r.err # Nil
                 THEN [sd |-> r.sd, ret |-> Failure(r.segments, r.err)]
                 ELSE RunLoop(r.sd, r.segments, buf, idx + W)
        ELSE [sd |-> d,
              ret |-> [segments |-> FilterSegments(segs, d.cfg), err |-> Nil]]

\* A whole Detect call on detector d and buffer buf.
DetectRun(d, buf) ==
    IF TooShort(buf.len, windowSize(d.cfg))
    THEN [sd |-> d, ret |-> [segments |-> <<>>, err |-> ErrNotEnough]]
    ELSE RunLoop(d, <<>>, buf, 0)

\* ---------------------------------------------------------------- Reset, setters

\* A detector that has consumed samples, has an open segment and a pending
\* tempEnd, and whose recurrent state is not zero.
Running(d) ==
    d.currSample > 0 /\ d.triggered /\ d.tempEnd # 0 /\ d.state # 0 /\ d.ctx # 0

\* A mutation of ResetDetector: the configuration goes back to its defaults too.
ResetDetectorAndDefaults(d) ==
    [d EXCEPT !.currSample = 0, !.triggered = FALSE, !.tempEnd = 0,
              !.state = 0, !.ctx = 0,
              !.cfg.MinSpeechDurationMs = DefaultMinSpeechDurationMs]

\* A mutation of ResetDetector: triggered is left as it is.
ResetDetectorKeepsTriggered(d) ==
    [d EXCEPT !.currSample = 0, !.tempEnd = 0, !.state = 0, !.ctx = 0]

\* A mutation of ResetDetector: tempEnd is left as it is.
ResetDetectorKeepsTempEnd(d) ==
    [d EXCEPT !.currSample = 0, !.triggered = FALSE, !.state = 0, !.ctx = 0]

\* A mutation of ResetDetector: currSample is left as it is.
ResetDetectorKeepsCurrSample(d) ==
    [d EXCEPT !.triggered = FALSE, !.tempEnd = 0, !.state = 0, !.ctx = 0]

\* Detector.Reset
ResetDetector(d) ==
    [d EXCEPT !.currSample = 0, !.triggered = FALSE, !.tempEnd = 0,
              !.state = 0, !.ctx = 0]

\* A mutation of SetNegativeThresholdOn: the pending tempEnd is dropped.
SetNegativeThresholdClearing(d, value) ==
    [d EXCEPT !.cfg.NegativeThreshold = value, !.tempEnd = 0]

\* Detector.SetThreshold, SetNegativeThreshold and SetMinSpeechDurationMs as
\* functions of the detector: each assigns one field of sd.cfg.
SetThresholdOn(d, value) == [d EXCEPT !.cfg.Threshold = value]

SetNegativeThresholdOn(d, value) == [d EXCEPT !.cfg.NegativeThreshold = value]

SetMinSpeechDurationMsOn(d, value) == [d EXCEPT !.cfg.MinSpeechDurationMs = value]

\* ---------------------------------------------------------------- inputs

\* The buffers of a detector with window size W: up to MaxWindows complete
\* windows, with or without a trailing partial window.
Buffers(W) ==
    { [len |-> k * W + r, win |-> w] :
        <<k, r, w>> \in
          UNION { {k} \X {0, Remainder} \X [1..k -> Audio] : k \in 0..MaxWindows } }

NoBuffer == [len |-> 0, win |-> <<>>]

NoReturn == [segments |-> <<>>, err |-> Nil]

\* The observations: calls, the adapter calls of the running Detect call; sd0, the
\* detector as that call found it; failed, whether the adapter has failed since
\* NewDetector; marks, for each element of segments the buffer offset of the
\* window that opened it and of the end of the window that recorded its
\* tempEnd; cand, that offset for the pending tempEnd; validated, whether ret
\* is what IsValid(arg) returned; minSpeechArg, the MinSpeechDurationMs the
\* caller last asked for; reset, whether the last operation on the detector
\* was a Reset that found it running; inferred, the number of windows the
\* adapter has scored without error since the detector was built or last Reset;
\* pending, whether a window has recorded a candidate end that no later window
\* has cleared or used and no Reset has dropped.
NoProbe ==
    [calls |-> 0, sd0 |-> Nil, failed |-> FALSE, marks |-> <<>>, cand |-> 0,
     validated |-> FALSE, minSpeechArg |-> 0, reset |-> FALSE, inferred |-> 0,
     pending |-> FALSE]

\* The configurations NewDetector is given in the detection runs.
DetectConfigs ==
    { Config("silero_vad.onnx", sr, 50, 0, msil, 0, pad) :
        <<sr, msil, pad>> \in {Rate8k, Rate16k} \X {0, 32} \X {0, 30} }
    \cup { Config("", Rate16k, 50, 0, 0, 0, 0) }

\* The arguments of the setters in the detection runs.
ThresholdArgs == {80}

NegativeThresholdArgs == {60}

MinSpeechDurationMsArgs == {0, 32}

\* ---------------------------------------------------------------- observations

\* The buffer offset that goes with tempEnd after a window ending at offset e.
Cand(cand, obs, e) == IF obs.marked THEN e ELSE cand

\* The marks of the segments after a window at offset b ending at offset e.
Marks(p, r, b, e) ==
    LET m1 == IF r.obs.opened /\ Len(r.segments) > Len(p.marks)
              THEN Append(p.marks, [open |-> b, close |-> 0])
              ELSE p.marks
    IN  IF r.obs.closed /\ r.err = Nil
        THEN [m1 EXCEPT ![Len(m1)].close = Cand(p.cand, r.obs, e)]
        ELSE m1

\* Whether a candidate end is pending after the step r of detector d on a
\* window of class x: a failed inference leaves it as it was; the silence
\* branch run to its end uses it; a window that entered the silence branch with
\* none recorded records one; a window at or above Threshold clears it.
Pending(was, d, x, r) ==
    IF r.err = ErrInfer THEN was
    ELSE IF r.obs.closed THEN FALSE
    ELSE IF r.obs.marked THEN TRUE
    ELSE IF infer(d, x).prob >= d.cfg.Threshold THEN FALSE
    ELSE was

\* ---------------------------------------------------------------- actions

Init ==
    /\ sd = Nil
    /\ pc = "none"
    /\ arg = Nil
    /\ pcm = NoBuffer
    /\ i = 0
    /\ segments = <<>>
    /\ ret = NoReturn
    /\ probe = NoProbe

\* NewDetector(cfg): the configuration is validated, defaulted and stored.  The
\* error is the message IsValid returned (NewDetector wraps it).
NewDetector(cfg) ==
    /\ pc = "none"
    /\ arg' = cfg
    /\ IF IsValid(cfg) # Nil
       THEN /\ ret' = [segments |-> <<>>, err |-> IsValid(cfg)]
            /\ pc' = "checked"
            /\ UNCHANGED sd
       ELSE /\ sd' = MakeDetector(DefaultedConfig(cfg))
            /\ pc' = "idle"
            /\ ret' = NoReturn
    /\ probe' = [NoProbe EXCEPT !.minSpeechArg = cfg.MinSpeechDurationMs]
    /\ UNCHANGED <<pcm, i, segments>>

NewDetectorCall == \E cfg \in DetectConfigs : NewDetector(cfg)

\* Detect(pcm) up to the start of the loop.
DetectCall ==
    /\ pc = "idle"
    /\ \E buf \in Buffers(windowSize(sd.cfg)) :
        /\ sd.currSample \div windowSize(sd.cfg) + Len(buf.win) <= MaxTotalWindows
        /\ pcm' = buf
        /\ i' = 0
        /\ segments' = <<>>
        /\ probe' = [probe EXCEPT !.calls = 0, !.sd0 = sd, !.marks = <<>>, !.cand = 0,
                                 !.reset = FALSE]
        /\ IF TooShort(buf.len, windowSize(sd.cfg))
           THEN /\ ret' = [segments |-> <<>>, err |-> ErrNotEnough]
                /\ pc' = "done"
           ELSE /\ ret' = NoReturn
                /\ pc' = "loop"
    /\ UNCHANGED <<sd, arg>>

\* One iteration of Detect's loop.
DetectWindow ==
    /\ pc = "loop"
    /\ LoopCond(i, pcm.len, windowSize(sd.cfg))
    /\ LET r == WindowStep(sd, segments, pcm.win[(i \div windowSize(sd.cfg)) + 1])
       IN  /\ sd' = r.sd
           /\ probe' = [probe EXCEPT !.calls = @ + 1,
                                     !.failed = @ \/ r.err = ErrInfer,
                                     !.inferred = IF r.err = ErrInfer THEN @ ELSE @ + 1,
                                     !.pending = Pending(@, sd, pcm.win[(i \div windowSize(sd.cfg)) + 1], r),
                                     !.cand = Cand(probe.cand, r.obs, i + windowSize(sd.cfg)),
                                     !.marks = Marks(probe, r, i, i + windowSize(sd.cfg))]
           /\ IF r.err # Nil
              THEN /\ ret' = Failure(r.segments, r.err)
                   /\ pc' = "done"
                   /\ UNCHANGED <<i, segments>>
              ELSE /\ segments' = r.segments
                   /\ i' = i + windowSize(sd.cfg)
                   /\ UNCHANGED <<ret, pc>>
    /\ UNCHANGED <<arg, pcm>>

\* The end of Detect's loop: the filter and the return.
DetectReturn ==
    /\ pc = "loop"
    /\ ~LoopCond(i, pcm.len, windowSize(sd.cfg))
    /\ ret' = [segments |-> FilterSegments(segments, sd.cfg), err |-> Nil]
    /\ pc' = "done"
    /\ UNCHANGED <<sd, arg, pcm, i, segments, probe>>

\* The caller has read what the call returned; the locals of the call are gone.
Caller ==
    /\ pc \in {"done", "checked"}
    /\ pc' = IF pc = "done" THEN "idle" ELSE "none"
    /\ arg' = IF pc = "done" THEN arg ELSE Nil
    /\ pcm' = NoBuffer
    /\ i' = 0
    /\ segments' = <<>>
    /\ ret' = NoReturn
    /\ probe' = [probe EXCEPT !.calls = 0, !.sd0 = Nil, !.marks = <<>>, !.cand = 0,
                              !.validated = FALSE]
    /\ UNCHANGED sd

\* Detector.Reset
Reset ==
    /\ pc = "idle"
    /\ sd' = ResetDetector(sd)
    /\ probe' = [probe EXCEPT !.reset = Running(sd), !.inferred = 0,
                              !.pending = FALSE]
    /\ UNCHANGED <<pc, arg, pcm, i, segments, ret>>

\* Detector.SetThreshold
SetThreshold ==
    /\ pc = "idle"
    /\ \E value \in ThresholdArgs : sd' = SetThresholdOn(sd, value)
    /\ probe' = [probe EXCEPT !.reset = FALSE]
    /\ UNCHANGED <<pc, arg, pcm, i, segments, ret>>

\* Detector.SetNegativeThreshold
SetNegativeThreshold ==
    /\ pc = "idle"
    /\ \E value \in NegativeThresholdArgs :
           sd' = SetNegativeThresholdOn(sd, value)
    /\ probe' = [probe EXCEPT !.reset = FALSE]
    /\ UNCHANGED <<pc, arg, pcm, i, segments, ret>>

\* Detector.SetMinSpeechDurationMs
SetMinSpeechDurationMs ==
    /\ pc = "idle"
    /\ \E value \in MinSpeechDurationMsArgs :
           /\ sd' = SetMinSpeechDurationMsOn(sd, value)
           /\ probe' = [probe EXCEPT !.minSpeechArg = value, !.reset = FALSE]
    /\ UNCHANGED <<pc, arg, pcm, i, segments, ret>>

\* Detector.Destroy: the detector is released; a new one may be built.
Destroy ==
    /\ pc = "idle"
    /\ sd' = Nil
    /\ pc' = "none"
    /\ arg' = Nil
    /\ pcm' = NoBuffer
    /\ i' = 0
    /\ segments' = <<>>
    /\ ret' = NoReturn
    /\ probe' = NoProbe

Next ==
    \/ NewDetectorCall
    \/ DetectCall
    \/ DetectWindow
    \/ DetectReturn
    \/ Caller
    \/ Reset
    \/ SetThreshold
    \/ SetNegativeThreshold
    \/ SetMinSpeechDurationMs
    \/ Destroy

Spec == Init /\ [][Next]_vars

\* ---------------------------------------------------------------- validation runs

\* The configuration of the test case "invalid NegativeThreshold range".
TestConfigNegZero == Config("../testfiles/silero_vad.onnx", Rate16k, 50, 0, 0, 0, 0)

\* The configurations handed to IsValid and NewDetector in the validation runs.
AllConfigs ==
    { Config(mp, sr, th, nth, msil, msp, pad) :
        <<mp, sr, th, nth, msil, msp, pad>> \in
            {"", "../testfiles/silero_vad.onnx"} \X {Rate8k, Rate16k, 48000}
            \X {0, 10, 15, 50, 100} \X {-5, 0, 35, 50, 60, 100}
            \X {-1, 0} \X {-1, 0} \X {-1, 0} }

\* cfg.IsValid() called on its own, as the tests do.
Validate ==
    /\ pc = "none"
    /\ \E cfg \in AllConfigs :
        /\ arg' = cfg
        /\ ret' = [segments |-> <<>>, err |-> IsValid(cfg)]
        /\ probe' = [NoProbe EXCEPT !.validated = TRUE]
    /\ pc' = "checked"
    /\ UNCHANGED <<sd, pcm, i, segments>>

NewDetectorAny == \E cfg \in AllConfigs : NewDetector(cfg)

NextConfig ==
    \/ Validate
    \/ NewDetectorAny
    \/ Caller
    \/ Destroy

SpecConfig == Init /\ [][NextConfig]_vars

\* ---------------------------------------------------------------- properties

Returned == pc = "done" /\ ret.err = Nil

\* C1: a successful Detect call on a buffer of length L >= windowSize has run
\* the adapter on exactly floor(L / windowSize) windows and advanced currSample
\* by windowSize for each of them.
C1_EveryCompleteWindow ==
    Returned =>
        /\ probe.calls = pcm.len \div windowSize(sd.cfg)
        /\ sd.currSample - probe.sd0.currSample
             = windowSize(sd.cfg) * (pcm.len \div windowSize(sd.cfg))

\* The running state NewDetector and Reset leave.
InitialRunning(d) ==
    d.currSample = 0 /\ ~d.triggered /\ d.tempEnd = 0 /\ d.state = 0 /\ d.ctx = 0

\* Every complete window of buf is speech.
AllSpeech(buf) == \A k \in 1..Len(buf.win) : buf.win[k] = "sp"

\* C2: a fresh or Reset detector given a buffer whose windows all score at least
\* the threshold returns exactly one segment, open and starting at 0.
C2_OneOpenSegment ==
    ( /\ Returned
      /\ InitialRunning(probe.sd0)
      /\ AllSpeech(pcm)
      /\ sd.cfg.Threshold <= 50
      /\ sd.cfg.NegativeThreshold < sd.cfg.Threshold )
    => ret.segments = <<[SpeechStartAt |-> 0, SpeechEndAt |-> 0]>>

\* Whether segs[k] carries the timestamps of its marks counted from sample
\* number base.
TimedFrom(base, segs, marks, k, c) ==
    /\ segs[k].SpeechStartAt =
          IF base + marks[k].open - speechPadSamples(c) < 0
          THEN 0 ELSE base + marks[k].open - speechPadSamples(c)
    /\ \/ segs[k].SpeechEndAt = 0 /\ marks[k].close = 0
       \/ segs[k].SpeechEndAt = base + marks[k].close + speechPadSamples(c)

\* C3 as stated: every timestamp a Detect call returns counts from the start of
\* the buffer of that call.
C3_RelativeToBuffer ==
    Returned =>
        \A n \in 1..Len(ret.segments) :
            \E k \in 1..Len(segments) :
                /\ segments[k] = ret.segments[n]
                /\ TimedFrom(0, segments, probe.marks, k, sd.cfg)

\* C3 amended: every timestamp a Detect call returns counts from the first
\* sample the detector consumed since NewDetector or the last Reset: the start
\* of the buffer plus currSample at the entry of the call.
C3_RelativeToSession ==
    Returned =>
        \A n \in 1..Len(ret.segments) :
            \E k \in 1..Len(segments) :
                /\ segments[k] = ret.segments[n]
                /\ TimedFrom(probe.sd0.currSample, segments, probe.marks, k, sd.cfg)

\* A second call, without Reset, has returned a closed and a later segment.
C3_Witness ==
    /\ Returned
    /\ probe.sd0.currSample > 0
    /\ Len(ret.segments) >= 2
    /\ ret.segments[1].SpeechEndAt # 0
    /\ ret.segments[2].SpeechStartAt > 0

\* C4: with an adapter that never fails, no Detect call returns "unexpected
\* speech end".
C4_NoUnexpectedEnd ==
    ~probe.failed => ret.err # ErrUnexpectedEnd

\* The last element of segs is an open segment.
LastOpen(segs) == Len(segs) > 0 /\ Last(segs).SpeechEndAt = 0

\* C5: after each processed window, and in the list a successful Detect call
\* returns, triggered holds exactly when the list is non-empty and its last
\* segment is open.
C5_TriggeredIffLastOpen ==
    /\ (pc = "loop" /\ probe.calls > 0) => (sd.triggered <=> LastOpen(segments))
    /\ Returned => (sd.triggered <=> LastOpen(ret.segments))

\* C6: from any state between calls, Reset followed by Detect on a buffer
\* returns what Detect on that buffer returns with a detector just built with
\* the same configuration.  (Where Reset leaves that very detector the two
\* calls are one and the same; anywhere else each buffer is run on both.)
C6_ResetReplaysFresh ==
    pc = "idle" =>
        \/ ResetDetector(sd) = MakeDetector(sd.cfg)
        \/ \A buf \in Buffers(windowSize(sd.cfg)) :
               DetectRun(ResetDetector(sd), buf).ret
                   = DetectRun(MakeDetector(sd.cfg), buf).ret

\* A detector between calls that a failed call left triggered, with a pending
\* tempEnd and samples consumed.
C6_Witness ==
    /\ pc = "idle"
    /\ probe.failed
    /\ sd.triggered
    /\ sd.tempEnd # 0
    /\ sd.state # 0
    /\ sd.currSample > windowSize(sd.cfg)

C8_DefaultNegativeInRange ==
    (pc = "idle" /\ arg.NegativeThreshold = 0) =>
        /\ sd.cfg.NegativeThreshold = arg.Threshold - Pct15
        /\ 0 <= sd.cfg.NegativeThreshold
        /\ sd.cfg.NegativeThreshold < sd.cfg.Threshold

\* The constraints of a configuration in the order of the claim, each with the
\* message of its violation.
Constraints(c) ==
    << <<c.ModelPath # "", ErrModelPath>>,
       <<c.SampleRate \in {Rate8k, Rate16k}, ErrSampleRate>>,
       <<0 < c.Threshold /\ c.Threshold < 100, ErrThreshold>>,
       <<0 <= c.NegativeThreshold /\ c.NegativeThreshold < 100, ErrNegRange>>,
       <<c.NegativeThreshold = 0 \/ c.NegativeThreshold < c.Threshold, ErrNegLess>>,
       <<c.MinSilenceDurationMs >= 0, ErrMinSilence>>,
       <<c.MinSpeechDurationMs >= 0, ErrMinSpeech>>,
       <<c.SpeechPadMs >= 0, ErrSpeechPad>> >>

MinSpeechDurations == {0, 64, 96, 250}

\* The detector NewDetector builds from arg with MinSpeechDurationMs = ms.
GivenMinSpeech(ms) ==
    MakeDetector(DefaultedConfig([arg EXCEPT !.MinSpeechDurationMs = ms]))

\* The detector NewDetector builds from arg, after SetMinSpeechDurationMs(ms).
SetMinSpeech(ms) ==
    SetMinSpeechDurationMsOn(MakeDetector(DefaultedConfig(arg)), ms)

\* The number of segments Detect returns for the buffer of the call.
Count(d) == Len(DetectRun(d, pcm).ret.segments)

\* A Detect call on a detector in its initial running state has run to its end.
FreshCallDone == pc = "done" /\ InitialRunning(probe.sd0)

\* For each of the values compared, the number of segments returned when the
\* value is given to NewDetector, and when it is set with the setter.
GivenCounts == [ms \in MinSpeechDurations |-> Count(GivenMinSpeech(ms))]

SetCounts == [ms \in MinSpeechDurations |-> Count(SetMinSpeech(ms))]

NegativeThresholds == {5, 20, 40}

\* The detector of the call as the call found it, with NegativeThreshold = n.
WithNegativeThreshold(n) == SetNegativeThresholdOn(probe.sd0, n)

\* C12: on the buffer of a call made in the initial state, a lower
\* NegativeThreshold never returns more segments than a higher one, both below
\* Threshold, the segments being counted after the filter.
C12_LowerNegativeNoMore ==
    FreshCallDone =>
        \A n1, n2 \in NegativeThresholds :
            n1 < n2 /\ n2 < probe.sd0.cfg.Threshold =>
                Count(WithNegativeThreshold(n1)) <= Count(WithNegativeThreshold(n2))

\* The detector of the call as the call found it, with SpeechPadMs = P and
\* after SetMinSpeechDurationMs(ms).
WithPad(P, ms) ==
    SetMinSpeechDurationMsOn([probe.sd0 EXCEPT !.cfg.SpeechPadMs = P], ms)

\* sP has as many segments as s0, and every segment of s0 that starts at n
\* samples or later (its padded start is not clamped) starts n samples earlier
\* in sP and, when closed, ends n samples later.
Shifted(s0, sP, n) ==
    /\ Len(sP) = Len(s0)
    /\ \A k \in 1..Len(s0) :
          (k <= Len(sP) /\ s0[k].SpeechStartAt >= n) =>
              /\ sP[k].SpeechStartAt = s0[k].SpeechStartAt - n
              /\ sP[k].SpeechEndAt =
                     IF s0[k].SpeechEndAt = 0 THEN 0 ELSE s0[k].SpeechEndAt + n

\* C13: on the buffer of a call made in the initial state, Detect with
\* SpeechPadMs = 30 returns as many segments as with SpeechPadMs = 0, each
\* unclamped start 30 ms earlier and each end 30 ms later.
C13_PaddingOnlyShifts ==
    FreshCallDone =>
        \A ms \in MinSpeechDurations :
            Shifted(DetectRun(WithPad(0, ms), pcm).ret.segments,
                    DetectRun(WithPad(30, ms), pcm).ret.segments,
                    speechPadSamples(WithPad(30, ms).cfg))

\* C14: a Detect call on a buffer shorter than windowSize ends with "not
\* enough samples" and no segments, has called the adapter zero times, and
\* leaves the detector (currSample, triggered, tempEnd, state, ctx) as the
\* call found it; a call on a longer buffer does not end with that error.
C14_ShortBufferRefused ==
    /\ pc = "loop" => pcm.len >= windowSize(sd.cfg)
    /\ pc = "done" =>
          IF pcm.len < windowSize(sd.cfg)
          THEN /\ ret = [segments |-> <<>>, err |-> ErrNotEnough]
               /\ probe.calls = 0
               /\ sd = probe.sd0
          ELSE ret.err # ErrNotEnough

\* A detector with an open segment, a pending tempEnd and a non-zero
\* recurrent state has refused a short, non-empty buffer.
C14_Witness ==
    /\ pc = "done"
    /\ pcm.len > 0
    /\ pcm.len < windowSize(sd.cfg)
    /\ sd.triggered
    /\ sd.tempEnd # 0
    /\ sd.currSample > 0
    /\ sd.ctx # 0

\* The loop of the finished call broke off at the window at offset i, and that
\* window is one the adapter fails on.
StoppedAtBadWindow ==
    /\ pc = "done"
    /\ ~TooShort(pcm.len, windowSize(sd.cfg))
    /\ LoopCond(i, pcm.len, windowSize(sd.cfg))
    /\ pcm.win[(i \div windowSize(sd.cfg)) + 1] = "bad"

\* C15: when the adapter fails on a window, the call returns the error and no
\* segment list, whatever segments the earlier windows opened or closed; a
\* call that returns without error has met no failing window, and no call
\* returns segments together with an error.
C15_FailureReturnsNothing ==
    /\ StoppedAtBadWindow => ret = [segments |-> <<>>, err |-> ErrInfer]
    /\ Returned =>
          \A k \in 1..Len(pcm.win) :
              LoopCond((k - 1) * windowSize(sd.cfg), pcm.len, windowSize(sd.cfg))
                  => pcm.win[k] # "bad"
    /\ pc = "done" /\ ret.err # Nil => ret.segments = <<>>

\* The adapter has failed on the third window of a call whose first two
\* windows opened and closed a segment.
C15_Witness ==
    /\ StoppedAtBadWindow
    /\ ret.err = ErrInfer
    /\ Len(segments) > 0
    /\ segments[1].SpeechEndAt # 0

\* No segment of segs but the last is open.
OnlyLastOpen(segs) == \A k \in 1..(Len(segs) - 1) : segs[k].SpeechEndAt # 0

\* C16: at every point of a Detect call, and in the list the call returns, at
\* most one segment is open (SpeechEndAt = 0), and an open segment is the last
\* element; the filter keeps this so.
C16_OnlyLastOpen == OnlyLastOpen(segments) /\ OnlyLastOpen(ret.segments)

\* A call has returned an open segment alone, its loop having built a closed
\* segment before it that the filter dropped.
C16_Witness ==
    /\ Returned
    /\ Len(segments) = 2
    /\ LastOpen(segments)
    /\ Len(ret.segments) = 1
    /\ LastOpen(ret.segments)

\* The segments of segs are in the order of their starts.
OrderedByStart(segs) ==
    \A j, k \in 1..Len(segs) :
        j < k => segs[j].SpeechStartAt <= segs[k].SpeechStartAt

\* The list Detect returns for the buffer of the call when SpeechPadMs is 100,
\* a padding of more than two windows.
WidelyPadded == DetectRun(WithPad(100, probe.sd0.cfg.MinSpeechDurationMs), pcm).ret.segments

\* C17: the list Detect returns is ordered by non-decreasing SpeechStartAt,
\* with and without padding, with starts clamped at 0, and after the filter;
\* so is the list the loop builds.
C17_OrderedByStart ==
    /\ OrderedByStart(segments)
    /\ OrderedByStart(ret.segments)
    /\ pc = "done" => OrderedByStart(WidelyPadded)

\* A call with padding and an active filter has returned two segments, the
\* start of the first clamped at 0; with a padding of 100 ms the starts of
\* both are clamped at 0.
C17_Witness ==
    /\ Returned
    /\ sd.cfg.SpeechPadMs > 0
    /\ sd.cfg.MinSpeechDurationMs > 0
    /\ Len(ret.segments) = 2
    /\ ret.segments[1].SpeechStartAt = 0
    /\ probe.marks[1].open = 0
    /\ Len(WidelyPadded) = 2
    /\ WidelyPadded[2].SpeechStartAt = 0

\* Between this state and the next, sd differs at most in the field f of its
\* configuration, which becomes one of values.
OnlyConfigField(f, values) ==
    /\ \A g \in DOMAIN sd \ {"cfg"} : sd'[g] = sd[g]
    /\ \A g \in DOMAIN sd.cfg \ {f} : sd'.cfg[g] = sd.cfg[g]
    /\ sd'.cfg[f] \in values

\* C18: SetThreshold, SetNegativeThreshold and SetMinSpeechDurationMs each
\* change the one field of the configuration they name and nothing else of the
\* detector: currSample, triggered, tempEnd, state, ctx and every other field
\* of the configuration stay as they are.
C18_SettersChangeOneField ==
    [][ pc' = "idle" =>
          /\ SetThreshold => OnlyConfigField("Threshold", ThresholdArgs)
          /\ SetNegativeThreshold =>
                 OnlyConfigField("NegativeThreshold", NegativeThresholdArgs)
          /\ SetMinSpeechDurationMs =>
                 OnlyConfigField("MinSpeechDurationMs", MinSpeechDurationMsArgs) ]_vars

\* The three setters have acted on a detector that has an open segment, a
\* pending tempEnd and a non-zero recurrent state after its first window:
\* SetThreshold(80) after the window that triggered it.
C18_Witness ==
    /\ pc = "idle"
    /\ sd.currSample = windowSize(sd.cfg)
    /\ sd.triggered
    /\ sd.tempEnd # 0
    /\ sd.state # 0
    /\ sd.cfg.Threshold \in ThresholdArgs
    /\ sd.cfg.NegativeThreshold \in NegativeThresholdArgs
    /\ sd.cfg.MinSpeechDurationMs \in MinSpeechDurationMsArgs \ {0}

\* C19: Reset sets currSample to 0, triggered to false, tempEnd to 0 and the
\* recurrent state (state, ctx) to zeros, and leaves every field of the
\* configuration as it is, the values changed through the setters included.
C19_ResetKeepsConfig ==
    [][ pc' = "idle" /\ Reset =>
          /\ sd'.currSample = 0
          /\ sd'.triggered = FALSE
          /\ sd'.tempEnd = 0
          /\ sd'.state = 0
          /\ sd'.ctx = 0
          /\ sd'.cfg = sd.cfg
          /\ DOMAIN sd' = DOMAIN sd ]_vars

\* Reset has just acted on a running detector whose Threshold,
\* NegativeThreshold and MinSpeechDurationMs had been changed by the setters.
C19_Witness ==
    /\ pc = "idle"
    /\ probe.reset
    /\ InitialRunning(sd)
    /\ sd.cfg.Threshold \in ThresholdArgs
    /\ sd.cfg.NegativeThreshold \in NegativeThresholdArgs
    /\ sd.cfg.MinSpeechDurationMs \in MinSpeechDurationMsArgs \ {0}

\* The window the loop is at, the probability the adapter gives for it, and
\* currSample after the window is counted.
ThisWindow == pcm.win[(i \div windowSize(sd.cfg)) + 1]

ThisProb == infer(sd, ThisWindow).prob

ThisSample == sd.currSample + windowSize(sd.cfg)

\* The segments after the trigger step of the window.
AfterTrigger ==
    IF ThisProb >= sd.cfg.Threshold /\ ~sd.triggered
    THEN Append(segments,
                [SpeechStartAt |-> StartAt(ThisSample, windowSize(sd.cfg),
                                           speechPadSamples(sd.cfg)),
                 SpeechEndAt |-> 0])
    ELSE segments

\* The pending tempEnd or, when none is pending, currSample of the window.
Candidate ==
    IF sd.tempEnd # 0 /\ ThisProb < sd.cfg.Threshold THEN sd.tempEnd ELSE ThisSample

\* The condition of the claim: silence strictly below NegativeThreshold,
\* triggered, and enough silence since the candidate.
CloseCondition ==
    /\ ThisProb < sd.cfg.NegativeThreshold
    /\ (sd.triggered \/ ThisProb >= sd.cfg.Threshold)
    /\ ThisSample - Candidate >= minSilenceSamples(sd.cfg)

\* The window closes the open segment: the last segment, open, gets
\* SpeechEndAt = tempEnd + speechPadSamples, tempEnd becomes 0 and triggered false.
ClosesOpenSegment ==
    /\ LastOpen(AfterTrigger)
    /\ segments' = [AfterTrigger EXCEPT
                       ![Len(AfterTrigger)].SpeechEndAt =
                           Candidate + speechPadSamples(sd.cfg)]
    /\ sd'.tempEnd = 0
    /\ ~sd'.triggered

\* C20: a window closes the open segment if and only if its probability is
\* strictly below NegativeThreshold, triggered is true and currSample -
\* tempEnd >= minSilenceSamples; the close writes SpeechEndAt = tempEnd +
\* speechPadSamples, unclamped, and clears tempEnd and triggered; in every
\* other window the segments stay as the trigger step left them.
C20_ClosesIff ==
    [][ DetectWindow /\ infer(sd, ThisWindow).err = Nil =>
          IF CloseCondition THEN ClosesOpenSegment ELSE segments' = AfterTrigger ]_vars

\* The detector's recurrent state before window k of buffer buf, d being the
\* detector before window 1.
RECURSIVE AdapterBefore(_, _, _)
AdapterBefore(d, buf, k) ==
    IF k <= 1
    THEN d
    ELSE LET p == AdapterBefore(d, buf, k - 1)
             r == infer(p, buf.win[k - 1])
         IN  [p EXCEPT !.state = r.state, !.ctx = r.ctx]

\* The probability the adapter gave for window k of the running call.
ProbAt(k) == infer(AdapterBefore(probe.sd0, pcm, k), pcm.win[k]).prob

\* The number, from 1, of the window the loop is at.
ThisIndex == (i \div windowSize(sd.cfg)) + 1

\* The number of the window whose currSample is the candidate of this window.
CandidateIndex == (Candidate - probe.sd0.currSample) \div windowSize(sd.cfg)

\* Window c is the first window below NegativeThreshold after the last window
\* at or above Threshold among the windows first..last.
FirstSilenceAfterLastSpeech(c, first, last) ==
    \E l \in first..(c - 1) :
        /\ ProbAt(l) >= sd.cfg.Threshold
        /\ \A j \in (l + 1)..last : ProbAt(j) < sd.cfg.Threshold
        /\ \A j \in (l + 1)..(c - 1) : ProbAt(j) >= sd.cfg.NegativeThreshold
        /\ ProbAt(c) < sd.cfg.NegativeThreshold

\* C21: a window at or above Threshold leaves tempEnd = 0 and closes nothing;
\* and when a window closes a segment, the end it writes is currSample of the
\* first window below NegativeThreshold after the last window at or above
\* Threshold of that segment, plus speechPadSamples.
C21_SpeechClearsCandidate ==
    [][ DetectWindow /\ infer(sd, ThisWindow).err = Nil =>
          /\ ThisProb >= sd.cfg.Threshold =>
                 sd'.tempEnd = 0 /\ segments' = AfterTrigger
          /\ pc' = "loop" /\ segments' # AfterTrigger =>
                 /\ Last(segments').SpeechEndAt =
                        Candidate + speechPadSamples(sd.cfg)
                 /\ FirstSilenceAfterLastSpeech(
                        CandidateIndex,
                        (Last(probe'.marks).open \div windowSize(sd.cfg)) + 1,
                        ThisIndex) ]_vars

\* The start the claim gives the segment opened by the window the loop is at.
ClampedStart ==
    LET n == ThisSample - windowSize(sd.cfg) - speechPadSamples(sd.cfg)
    IN  IF n > 0 THEN n ELSE 0

\* C22: a window opens a new segment if and only if its probability is at or
\* above Threshold and triggered is false; the segment is appended with
\* SpeechStartAt = max(0, currSample - windowSize - speechPadSamples), currSample
\* taken after the advance, and is open unless the same window closes it; no
\* segment ever has a negative SpeechStartAt.
C22_OpensIff ==
    /\ [](\A k \in 1..Len(segments) : segments[k].SpeechStartAt >= 0)
    /\ [](\A k \in 1..Len(ret.segments) : ret.segments[k].SpeechStartAt >= 0)
    /\ [][ DetectWindow /\ infer(sd, ThisWindow).err = Nil =>
             IF ThisProb >= sd.cfg.Threshold /\ ~sd.triggered
             THEN /\ Len(segments') = Len(segments) + 1
                  /\ SubSeq(segments', 1, Len(segments)) = segments
                  /\ Last(segments').SpeechStartAt = ClampedStart
                  /\ Last(segments').SpeechEndAt # 0 => CloseCondition
             ELSE Len(segments') = Len(segments) ]_vars

\* With padding, a window whose probability equals Threshold has opened the
\* second segment of a call; the start of the first was clamped at 0, the
\* start of the second was not.
C22_Witness ==
    /\ pc = "loop"
    /\ sd.cfg.SpeechPadMs > 0
    /\ Len(segments) = 2
    /\ segments[1].SpeechStartAt = 0
    /\ segments[2].SpeechStartAt > 0
    /\ segments[2].SpeechEndAt = 0
    /\ sd.triggered
    /\ i = 3 * windowSize(sd.cfg)
    /\ ProbAt(3) = sd.cfg.Threshold

\* ---------------------------------------------------------------- C23

\* Pads and minimum speech durations, in ms, the filter is tried with; at 10 ms
\* of padding a segment opened by the second window and closed by the third
\* lasts 84 ms.
FilterPads == {0, 10, 30}
FilterMinSpeech == {64, 84, 85, 250}

\* The rule of the filter, as it is computed on the float64 times.
FilterRule(seg, c) ==
    \/ seg.SpeechEndAt = 0
    \/ FloatFloor(FloatMul(FloatSub(FloatDiv(seg.SpeechEndAt, c.SampleRate),
                                    FloatDiv(seg.SpeechStartAt, c.SampleRate)),
                           c.SampleRate))
         >= GoDiv(c.MinSpeechDurationMs * c.SampleRate, MsPerSecond)

Built == pc \in {"idle", "loop", "done"}

\* C24: currSample is always a multiple of windowSize and equals windowSize
\* times the number of windows inferred without error since the detector was
\* built or last Reset, whatever the number of Detect calls; a step that
\* lowers it is a Reset.
C24_CurrSampleCountsWindows ==
    /\ [](Built => /\ sd.currSample % windowSize(sd.cfg) = 0
                   /\ sd.currSample = windowSize(sd.cfg) * probe.inferred)
    /\ [][ Built /\ pc' \in {"idle", "loop", "done"}
           /\ sd'.currSample < sd.currSample =>
               /\ pc = "idle" /\ pc' = "idle"
               /\ sd' = ResetDetector(sd)
               /\ probe'.inferred = 0 ]_vars

\* A second Detect call is under way on a detector that was not Reset, after a
\* window the adapter failed on: currSample counts the windows of both calls.
C24_Witness ==
    /\ pc = "loop"
    /\ probe.failed
    /\ probe.sd0.currSample > 0
    /\ i > 0
    /\ sd.currSample = probe.sd0.currSample + i

\* ---------------------------------------------------------------- C25

\* C25: tempEnd is not 0 exactly when a candidate end is pending; a recorded
\* candidate is at least windowSize and at most currSample, and is held only
\* while triggered.
C25_SentinelNeverCollides ==
    Built =>
        /\ (sd.tempEnd # 0) = probe.pending
        /\ sd.tempEnd # 0 =>
               /\ sd.tempEnd >= windowSize(sd.cfg)
               /\ sd.tempEnd <= sd.currSample
               /\ sd.triggered

\* A candidate recorded by an earlier window is pending between two Detect
\* calls, and currSample has moved past it.
C25_Witness ==
    /\ pc = "idle"
    /\ probe.pending
    /\ sd.tempEnd # 0
    /\ sd.tempEnd < sd.currSample

\* ---------------------------------------------------------------- C26

\* Whether the element seg of the built list is in the returned list.
IsReturned(seg) == \E k \in 1..Len(ret.segments) : ret.segments[k] = seg

\* C26: every closed segment of a returned list ends after it starts and does
\* not start before 0; and every segment the loop has closed has an end other
\* than 0, the mark of an open segment, in the list being built and in the
\* list returned.
C26_ClosedEndsAfterStart ==
    /\ Returned =>
           \A k \in 1..Len(ret.segments) :
               /\ ret.segments[k].SpeechStartAt >= 0
               /\ ret.segments[k].SpeechEndAt # 0 =>
                      ret.segments[k].SpeechEndAt > ret.segments[k].SpeechStartAt
    /\ pc \in {"loop", "done"} =>
           /\ Len(probe.marks) = Len(segments)
           /\ \A k \in 1..Len(segments) :
                  /\ (probe.marks[k].close # 0) = (segments[k].SpeechEndAt # 0)
                  /\ segments[k].SpeechEndAt # 0 =>
                         segments[k].SpeechEndAt > segments[k].SpeechStartAt

\* A call has returned a closed segment that one window both opened and
\* closed, negativeThreshold having been set above threshold.
C26_Witness ==
    /\ Returned
    /\ sd.cfg.NegativeThreshold > sd.cfg.Threshold
    /\ \E k \in 1..Len(segments) :
           /\ segments[k].SpeechEndAt # 0
           /\ probe.marks[k].close = probe.marks[k].open + windowSize(sd.cfg)
           /\ IsReturned(segments[k])

\* ---------------------------------------------------------------- C27

\* C27: consecutive segments of a returned list do not overlap: each ends no
\* later than the next one starts.
C27_NoOverlap ==
    Returned =>
        \A k \in 1..(Len(ret.segments) - 1) :
            ret.segments[k].SpeechEndAt <= ret.segments[k + 1].SpeechStartAt

\* ---------------------------------------------------------------- C28

\* C28: negativeThreshold is below threshold in every state of a detector, also
\* after SetThreshold and SetNegativeThreshold, and no window both opens and
\* closes a segment.
C28_NegativeBelowThreshold ==
    /\ Built => sd.cfg.NegativeThreshold < sd.cfg.Threshold
    /\ pc \in {"loop", "done"} =>
           \A k \in 1..Len(probe.marks) :
               probe.marks[k].close # probe.marks[k].open + windowSize(sd.cfg)

\* ---------------------------------------------------------------- C29

\* The detector after the first n windows of buf, none of which fails.
RECURSIVE AfterWindows(_, _, _)
AfterWindows(d, buf, n) ==
    IF n = 0 THEN d
    ELSE WindowStep(AfterWindows(d, buf, n - 1), <<>>, buf.win[n]).sd

\* currSample, triggered and tempEnd of a detector.
Progress(d) == <<d.currSample, d.triggered, d.tempEnd>>

\* C29: after a call the adapter failed in, currSample, triggered and tempEnd
\* are as the windows before the failing one left them; the failing window
\* changes none of the three; and a detector whose three fields are not all
\* at their initial values gets them back there by Reset only.
C29_FailureKeepsProgress ==
    /\ [](StoppedAtBadWindow =>
              Progress(sd)
                  = Progress(AfterWindows(probe.sd0, pcm, i \div windowSize(sd.cfg))))
    /\ [][ DetectWindow /\ infer(sd, ThisWindow).err # Nil =>
               /\ Progress(sd') = Progress(sd)
               /\ pc' = "done" /\ ret'.err = ErrInfer ]_vars
    /\ [][ Built /\ pc' \in {"idle", "loop", "done"}
           /\ Progress(sd) # <<0, FALSE, 0>> /\ Progress(sd') = <<0, FALSE, 0>> =>
               pc = "idle" /\ pc' = "idle" /\ sd' = ResetDetector(sd) ]_vars

\* A call has returned the adapter's error at its third window, and the open
\* segment and the candidate end of the two windows before it are still held.
C29_Witness ==
    /\ StoppedAtBadWindow
    /\ ret.err = ErrInfer
    /\ i = 2 * windowSize(sd.cfg)
    /\ sd.currSample = probe.sd0.currSample + i
    /\ ~probe.sd0.triggered
    /\ sd.triggered
    /\ sd.tempEnd = sd.currSample

====
